---- MODULE Spec2Model ----
(***************************************************************************)
(* A model of package onmap (src/onmap.go, the current revision at lines   *)
(* 257-505): MapPinsProjection, which sorts the projected pins, draws the  *)
(* map and the pin parts, computes the bounding box of the pins and the    *)
(* crop rectangle, and DefaultMap / DefaultPin, the sync.Once guarded      *)
(* caches of the embedded assets.                                          *)
(*                                                                         *)
(* Projection.Convert is an interface method: MapPinsProjection works on   *)
(* whatever points it returns.  The model draws the projected points       *)
(* cs[i] = proj.Convert(coords[i], mapWidth, mapHeight) from the pixel     *)
(* grid [0, mapWidth] x [0, mapHeight].                                    *)
(***************************************************************************)
EXTENDS Integers, Sequences, FiniteSets

\* ------------------------------------------------------------- bounds
MapW == 4
MapH == 3
MaxPins == 2
MaxParts == 2
MaxBound == 2
\* The map of the standard crop runs, and the spacing of the pins tried on it.
StdMapW == 1920
StdMapH == 1629
GridStep == 37
\* Goroutines calling the accessors, and entry point calls per goroutine.
NumGoroutines == 2
MaxCalls == 2

\* ------------------------------------------------ program constants
\* StandardCrop (src/onmap.go:314-319)
StdBound == 100
StdMinWidth == 640
StdMinHeight == 543

VARIABLES
    mapWidth, mapHeight,   \* worldMap.Bounds().Max.X / .Y
    nParts,                \* len(pinParts)
    coords,                \* the projected points, in the caller's order
    crop,                  \* <<>> for a nil *CropOption, <<c>> for a pointer to c
    pc,                    \* position in MapPinsProjection
    cs,                    \* the points slice being sorted and drawn
    m,                     \* bounds of the output image m
    pinIdx, cIdx,          \* the two loop indices of the pin drawing loops
    drawn,                 \* the draw.Draw calls of pins made so far
    minX, minY, maxX, maxY,
    ret,                   \* <<>> until the call returns, then <<bounds of the image>>
    onceDone,              \* per cache: the done flag of its sync.Once
    onceM,                 \* per cache: the goroutine holding the Once's mutex, 0 if free
    cached,                \* per cache: mercatorImg / defaultPinParts, 0 for nil
    decodes,               \* per cache: how many times its assets were decoded
    gpc, gfn,              \* per goroutine: position, and the cache it is reading
    gtmp,                  \* per goroutine: the value it decoded and has not stored yet
    gtodo,                 \* per goroutine: the accessor calls still to make
    gcalls,                \* per goroutine: the entry point calls made so far
    returned               \* the <<cache, value>> pairs the accessors have returned

inVars == <<mapWidth, mapHeight, nParts, coords, crop>>
boxVars == <<minX, minY, maxX, maxY>>
mapVars == <<inVars, pc, cs, m, pinIdx, cIdx, drawn, boxVars, ret>>
onceVars == <<onceDone, onceM, cached, decodes, gpc, gfn, gtmp, gtodo, gcalls, returned>>
vars == <<mapVars, onceVars>>

\* ------------------------------------------------------------ helpers

\* Go's integer division truncates toward zero.
TruncDiv(a, b) == IF a >= 0 THEN a \div b ELSE -((-a) \div b)

Point(x, y) == [X |-> x, Y |-> y]

\* image.Rect(x0, y0, x1, y1): the well-formed rectangle (swaps min and max).
Rect(x0, y0, x1, y1) ==
    [MinX |-> IF x0 > x1 THEN x1 ELSE x0,
     MinY |-> IF y0 > y1 THEN y1 ELSE y0,
     MaxX |-> IF x0 > x1 THEN x0 ELSE x1,
     MaxY |-> IF y0 > y1 THEN y0 ELSE y1]

Dx(r) == r.MaxX - r.MinX
Dy(r) == r.MaxY - r.MinY
Empty(r) == r.MinX >= r.MaxX \/ r.MinY >= r.MaxY

\* (*image.RGBA).SubImage(r): r.Intersect(p.Rect), the empty image when that is empty.
SubImage(img, r) ==
    LET i == [MinX |-> IF r.MinX < img.MinX THEN img.MinX ELSE r.MinX,
              MinY |-> IF r.MinY < img.MinY THEN img.MinY ELSE r.MinY,
              MaxX |-> IF r.MaxX > img.MaxX THEN img.MaxX ELSE r.MaxX,
              MaxY |-> IF r.MaxY > img.MaxY THEN img.MaxY ELSE r.MaxY]
    IN IF Empty(i) THEN [MinX |-> 0, MinY |-> 0, MaxX |-> 0, MaxY |-> 0] ELSE i

\* A comparator that orders by X instead of Y.
LessByX(a, b) == a.X < b.X

\* A comparator that orders by descending Y.
LessDescending(a, b) == a.Y > b.Y

\* The comparator handed to sort.Slice.
Less(a, b) == a.Y < b.Y

\* sort.Slice(cs, less): a permutation of cs in which no element is less than an
\* earlier one; sort.Slice does not promise stability, so equal keys may end in
\* any order.
Sorted(s) == \A i, j \in 1..Len(s) : i < j => ~Less(s[j], s[i])

Permutations(s) ==
    LET n == Len(s)
        bij == {f \in [1..n -> 1..n] : \A i, j \in 1..n : f[i] = f[j] => i = j}
    IN {[i \in 1..n |-> s[f[i]]] : f \in bij}

SortSlice(s) == {p \in Permutations(s) : Sorted(p)}

\* image.NewRGBA(image.Rect(0, 0, worldMap.Bounds().Dx(), worldMap.Bounds().Dy()))
\* for a world map whose bounds start at the origin.
NewRGBA(w, h) == Rect(0, 0, w, h)

\* ------------------------------------------------- bounding box of pins
RECURSIVE MinMax(_, _, _)
\* The loop "for _, c := range cs" from index i on, with the running values b.
MinMax(s, i, b) ==
    IF i > Len(s) THEN b
    ELSE LET c == s[i]
             b1 == [b EXCEPT !.minX = IF c.X < b.minX THEN c.X ELSE b.minX]
             b2 == [b1 EXCEPT !.maxX = IF c.X > b1.maxX THEN c.X ELSE b1.maxX]
             b3 == [b2 EXCEPT !.minY = IF c.Y < b2.minY THEN c.Y ELSE b2.minY]
             b4 == [b3 EXCEPT !.maxY = IF c.Y > b3.maxY THEN c.Y ELSE b3.maxY]
         IN MinMax(s, i + 1, b4)

InitialBounds(w, h) == [minX |-> w, minY |-> h, maxX |-> 0, maxY |-> 0]

\* ----------------------------------------------------- the crop steps
\* "Calculate bounds": the margin, each value clamped to the map; the last
\* clamp assigns maxX, as the source does.
CalcBounds(b, c, w, h) ==
    LET b1 == [b EXCEPT !.minX = IF b.minX - c.Bound < 0 THEN 0 ELSE b.minX - c.Bound]
        b2 == [b1 EXCEPT !.minY = IF b.minY - c.Bound < 0 THEN 0 ELSE b.minY - c.Bound]
        b3 == [b2 EXCEPT !.maxX = IF b.maxX + c.Bound > w THEN w ELSE b.maxX + c.Bound]
        b4 == [b3 EXCEPT !.maxY = b.maxY + c.Bound]
    IN IF b4.maxY > h THEN [b4 EXCEPT !.maxX = h] ELSE b4

\* A width step that moves minX only and leaves maxX where it was.
ExpandWidthOneSided(b, c, w) ==
    LET cw == b.maxX - b.minX
        lo == b.minX - TruncDiv(c.MinWidth - cw, 2)
    IN IF cw < c.MinWidth THEN [b EXCEPT !.minX = IF lo < 0 THEN 0 ELSE lo] ELSE b

\* The minimum width step.
ExpandWidth(b, c, w) ==
    LET cw == b.maxX - b.minX
        half == TruncDiv(c.MinWidth - cw, 2)
        lo == b.minX - half
        add == IF lo < 0 THEN -lo ELSE 0
        hi == b.maxX + half + add
    IN IF cw < c.MinWidth
       THEN [b EXCEPT !.minX = IF lo < 0 THEN 0 ELSE lo,
                      !.maxX = IF hi > w THEN w ELSE hi]
       ELSE b

\* int((float64(crop.MinHeight) / float64(crop.MinWidth)) * float64(w)): the
\* conversion truncates toward zero.  In float64 the quotient is rounded before
\* the multiplication; for operands below 13, and for 543/640 times any width up
\* to 2000, the rounded product truncates to the same integer as the exact one
\* (the first operands for which it does not are 13/3 * 27).
RatioHeight(c, cw) == TruncDiv(c.MinHeight * cw, c.MinWidth)

\* The effective minimum height for the crop width cw.
MinHeightFor(c, cw) ==
    LET r == IF c.PreserveRatio THEN RatioHeight(c, cw) ELSE 0
    IN IF r < c.MinHeight THEN c.MinHeight ELSE r

\* The minimum height step.
ExpandHeight(b, c, h) ==
    LET minHeight == MinHeightFor(c, b.maxX - b.minX)
        ch == b.maxY - b.minY
        half == TruncDiv(minHeight - ch, 2)
        lo == b.minY - half
        add == IF lo < 0 THEN -lo ELSE 0
        hi == b.maxY + half + add
    IN IF ch < minHeight
       THEN [b EXCEPT !.minY = IF lo < 0 THEN 0 ELSE lo,
                      !.maxY = IF hi > h THEN h ELSE hi]
       ELSE b

\* The three crop steps in the order MapPinsProjection runs them.
ResolveCrop(b, c, w, h) == ExpandHeight(ExpandWidth(CalcBounds(b, c, w, h), c, w), c, h)

Bounds == [minX |-> minX, minY |-> minY, maxX |-> maxX, maxY |-> maxY]

\* ------------------------------------------------------------ inputs
Points(w, h) == {Point(x, y) : x \in 0..w, y \in 0..h}

SeqsUpTo(S, n) == UNION {[1..k -> S] : k \in 0..n}

\* The crop options with a margin up to MaxBound and minimum sizes from 1 to
\* one more than the map's.
CropOptions(w, h) ==
    [Bound : 0..MaxBound, MinWidth : 1..(w + 1), MinHeight : 1..(h + 1),
     PreserveRatio : BOOLEAN]

StandardCrop ==
    [Bound |-> StdBound, MinWidth |-> StdMinWidth, MinHeight |-> StdMinHeight,
     PreserveRatio |-> TRUE]

\* The state at the entry of MapPinsProjection, after cs has been filled with
\* the converted coordinates.
Entry ==
    /\ pc = "sort"
    /\ cs = coords
    /\ m = NewRGBA(0, 0)
    /\ pinIdx = 1
    /\ cIdx = 1
    /\ drawn = <<>>
    /\ minX = 0 /\ minY = 0 /\ maxX = 0 /\ maxY = 0
    /\ ret = <<>>

\* ---------------------------------------------- the accessors' state
Caches == {"mercator", "pin"}
Goroutines == 1..NumGoroutines

InitOnce ==
    /\ onceDone = [c \in Caches |-> 0]
    /\ onceM = [c \in Caches |-> 0]
    /\ cached = [c \in Caches |-> 0]
    /\ decodes = [c \in Caches |-> 0]
    /\ gpc = [g \in Goroutines |-> "idle"]
    /\ gfn = [g \in Goroutines |-> "mercator"]
    /\ gtmp = [g \in Goroutines |-> 0]
    /\ gtodo = [g \in Goroutines |-> <<>>]
    /\ gcalls = [g \in Goroutines |-> 0]
    /\ returned = {}

\* The lists of no pin, one pin and two pins of S.  The crop steps read the
\* pins only through MinMax, and two pins, at opposite corners, give every
\* bounding box that MinMax can return for a longer list.
BoxLists(S) == {<<>>} \cup {<<p>> : p \in S} \cup {<<p, q>> : p \in S, q \in S}

\* One pin part, every bounding box of pins, every crop option.
Init ==
    /\ mapWidth = MapW
    /\ mapHeight = MapH
    /\ nParts = 1
    /\ coords \in BoxLists(Points(MapW, MapH))
    /\ crop \in {<<>>} \cup {<<c>> : c \in CropOptions(MapW, MapH)}
    /\ Entry
    /\ InitOnce

\* Every number of pin parts, every list of up to MaxPins pins, no crop or
\* the widest one.
InitDraw ==
    /\ mapWidth = MapW
    /\ mapHeight = MapH
    /\ nParts \in 0..MaxParts
    /\ coords \in SeqsUpTo(Points(MapW, MapH), MaxPins)
    /\ crop \in {<<>>,
                 <<[Bound |-> MaxBound, MinWidth |-> MapW, MinHeight |-> MapH,
                    PreserveRatio |-> FALSE]>>}
    /\ Entry
    /\ InitOnce

\* Pins(coords, StandardCrop) and Pins(coords, nil) for at most one pin, on a
\* map of StdMapW x StdMapH with the two default pin parts.
GridPoints ==
    {Point(x, y) : x \in {i * GridStep : i \in 0..(StdMapW \div GridStep)} \cup {StdMapW},
                   y \in {j * GridStep : j \in 0..(StdMapH \div GridStep)} \cup {StdMapH}}

InitStd ==
    /\ mapWidth = StdMapW
    /\ mapHeight = StdMapH
    /\ nParts = 2
    /\ coords \in SeqsUpTo(GridPoints, 1)
    /\ crop \in {<<>>, <<StandardCrop>>}
    /\ Entry
    /\ InitOnce

\* The accessors alone: no call of MapPinsProjection is in progress.
InitAccess ==
    /\ mapWidth = MapW
    /\ mapHeight = MapH
    /\ nParts = 0
    /\ coords = <<>>
    /\ crop = <<>>
    /\ Entry
    /\ InitOnce

\* ----------------------------------------------------------- actions
\* sort.Slice(cs, ...)
Sort ==
    /\ pc = "sort"
    /\ cs' \in SortSlice(cs)
    /\ pc' = "drawmap"
    /\ UNCHANGED <<mapWidth, mapHeight, nParts, coords, crop, m, pinIdx, cIdx, drawn, minX, minY, maxX, maxY, ret, onceVars>>

\* "Draw map."
DrawMap ==
    /\ pc = "drawmap"
    /\ m' = NewRGBA(mapWidth, mapHeight)
    /\ pc' = "drawpins"
    /\ UNCHANGED <<mapWidth, mapHeight, nParts, coords, crop, cs, pinIdx, cIdx, drawn, minX, minY, maxX, maxY, ret, onceVars>>

\* One draw.Draw of the loops "for _, pin := range pinParts { for _, c := range cs".
DrawPin ==
    /\ pc = "drawpins"
    /\ pinIdx <= nParts
    /\ cIdx <= Len(cs)
    /\ drawn' = Append(drawn, [part |-> pinIdx, pt |-> cs[cIdx]])
    /\ IF cIdx < Len(cs)
       THEN cIdx' = cIdx + 1 /\ pinIdx' = pinIdx
       ELSE cIdx' = 1 /\ pinIdx' = pinIdx + 1
    /\ UNCHANGED <<mapWidth, mapHeight, nParts, coords, crop, pc, cs, m, minX, minY, maxX, maxY, ret, onceVars>>

\* Both loops are over; "Calculate min&max values."
CalcMinMax ==
    /\ pc = "drawpins"
    /\ pinIdx > nParts \/ Len(cs) = 0
    /\ LET b == MinMax(cs, 1, InitialBounds(mapWidth, mapHeight))
       IN minX' = b.minX /\ minY' = b.minY /\ maxX' = b.maxX /\ maxY' = b.maxY
    /\ pc' = "cropnil"
    /\ UNCHANGED <<mapWidth, mapHeight, nParts, coords, crop, cs, m, pinIdx, cIdx, drawn, ret, onceVars>>

\* A return for a nil crop that crops to the box of the pins all the same.
ReturnCroppedAnyway ==
    /\ pc = "cropnil"
    /\ crop = <<>>
    /\ ret' = <<SubImage(m, Rect(minX, minY, maxX, maxY))>>
    /\ pc' = "done"
    /\ UNCHANGED <<mapWidth, mapHeight, nParts, coords, crop, cs, m, pinIdx, cIdx, drawn, minX, minY, maxX, maxY, onceVars>>

\* "if crop == nil { return m }"
ReturnUncropped ==
    /\ pc = "cropnil"
    /\ crop = <<>>
    /\ ret' = <<m>>
    /\ pc' = "done"
    /\ UNCHANGED <<mapWidth, mapHeight, nParts, coords, crop, cs, m, pinIdx, cIdx, drawn, minX, minY, maxX, maxY, onceVars>>

\* "Calculate bounds."
Margin ==
    /\ pc = "cropnil"
    /\ crop # <<>>
    /\ LET b == CalcBounds(Bounds, crop[1], mapWidth, mapHeight)
       IN minX' = b.minX /\ minY' = b.minY /\ maxX' = b.maxX /\ maxY' = b.maxY
    /\ pc' = "width"
    /\ UNCHANGED <<mapWidth, mapHeight, nParts, coords, crop, cs, m, pinIdx, cIdx, drawn, ret, onceVars>>

Width ==
    /\ pc = "width"
    /\ LET b == ExpandWidth(Bounds, crop[1], mapWidth)
       IN minX' = b.minX /\ minY' = b.minY /\ maxX' = b.maxX /\ maxY' = b.maxY
    /\ pc' = "height"
    /\ UNCHANGED <<mapWidth, mapHeight, nParts, coords, crop, cs, m, pinIdx, cIdx, drawn, ret, onceVars>>

Height ==
    /\ pc = "height"
    /\ LET b == ExpandHeight(Bounds, crop[1], mapHeight)
       IN minX' = b.minX /\ minY' = b.minY /\ maxX' = b.maxX /\ maxY' = b.maxY
    /\ pc' = "subimage"
    /\ UNCHANGED <<mapWidth, mapHeight, nParts, coords, crop, cs, m, pinIdx, cIdx, drawn, ret, onceVars>>

\* "return m.SubImage(image.Rect(minX, minY, maxX, maxY))"
ReturnSubImage ==
    /\ pc = "subimage"
    /\ ret' = <<SubImage(m, Rect(minX, minY, maxX, maxY))>>
    /\ pc' = "done"
    /\ UNCHANGED <<mapWidth, mapHeight, nParts, coords, crop, cs, m, pinIdx, cIdx, drawn, minX, minY, maxX, maxY, onceVars>>

Next ==
    \/ Sort
    \/ DrawMap
    \/ DrawPin
    \/ CalcMinMax
    \/ ReturnUncropped
    \/ Margin
    \/ Width
    \/ Height
    \/ ReturnSubImage

Spec == Init /\ [][Next]_vars
SpecDraw == InitDraw /\ [][Next]_vars
SpecStd == InitStd /\ [][Next]_vars

\* ------------------------------------------- DefaultMap and DefaultPin
\* sync.Once.Do(f) is "if o.done.Load() == 0 { o.doSlow(f) }", and doSlow is
\* "o.m.Lock(); defer o.m.Unlock(); if o.done.Load() == 0 { defer
\* o.done.Store(1); f() }".  f decodes the embedded asset(s) and assigns the
\* package variable; the k-th decode of a cache yields the value k.

\* A caller enters DefaultMap().
CallDefaultMap(g) ==
    /\ gpc[g] = "idle" /\ gtodo[g] = <<>> /\ gcalls[g] < MaxCalls
    /\ gtodo' = [gtodo EXCEPT ![g] = <<"mercator">>]
    /\ gcalls' = [gcalls EXCEPT ![g] = @ + 1]
    /\ UNCHANGED <<onceDone, onceM, cached, decodes, gpc, gfn, gtmp, returned, mapVars>>

\* A caller enters DefaultPin().
CallDefaultPin(g) ==
    /\ gpc[g] = "idle" /\ gtodo[g] = <<>> /\ gcalls[g] < MaxCalls
    /\ gtodo' = [gtodo EXCEPT ![g] = <<"pin">>]
    /\ gcalls' = [gcalls EXCEPT ![g] = @ + 1]
    /\ UNCHANGED <<onceDone, onceM, cached, decodes, gpc, gfn, gtmp, returned, mapVars>>

\* Pins evaluates DefaultMap() and then DefaultPin().
Pins(g) ==
    /\ gpc[g] = "idle" /\ gtodo[g] = <<>> /\ gcalls[g] < MaxCalls
    /\ gtodo' = [gtodo EXCEPT ![g] = <<"mercator", "pin">>]
    /\ gcalls' = [gcalls EXCEPT ![g] = @ + 1]
    /\ UNCHANGED <<onceDone, onceM, cached, decodes, gpc, gfn, gtmp, returned, mapVars>>

\* The accessor's body starts: once.Do(...).
Enter(g) ==
    /\ gpc[g] = "idle" /\ gtodo[g] # <<>>
    /\ gfn' = [gfn EXCEPT ![g] = Head(gtodo[g])]
    /\ gtodo' = [gtodo EXCEPT ![g] = Tail(@)]
    /\ gpc' = [gpc EXCEPT ![g] = "do"]
    /\ UNCHANGED <<onceDone, onceM, cached, decodes, gtmp, gcalls, returned, mapVars>>

\* Do: the load of done outside the mutex.
DoFast(g) ==
    /\ gpc[g] = "do"
    /\ gpc' = [gpc EXCEPT ![g] = IF onceDone[gfn[g]] = 0 THEN "lock" ELSE "return"]
    /\ UNCHANGED <<onceDone, onceM, cached, decodes, gfn, gtmp, gtodo, gcalls, returned, mapVars>>

\* doSlow: o.m.Lock()
Lock(g) ==
    /\ gpc[g] = "lock"
    /\ onceM[gfn[g]] = 0
    /\ onceM' = [onceM EXCEPT ![gfn[g]] = g]
    /\ gpc' = [gpc EXCEPT ![g] = "slow"]
    /\ UNCHANGED <<onceDone, cached, decodes, gfn, gtmp, gtodo, gcalls, returned, mapVars>>

\* A variant of DoSlowCheck that runs f without looking at done again.
DoSlowNoCheck(g) ==
    /\ gpc[g] = "slow"
    /\ gpc' = [gpc EXCEPT ![g] = "decode"]
    /\ UNCHANGED <<onceDone, onceM, cached, decodes, gfn, gtmp, gtodo, gcalls, returned, mapVars>>

\* doSlow: the load of done under the mutex.
DoSlowCheck(g) ==
    /\ gpc[g] = "slow"
    /\ gpc' = [gpc EXCEPT ![g] = IF onceDone[gfn[g]] = 0 THEN "decode" ELSE "unlock"]
    /\ UNCHANGED <<onceDone, onceM, cached, decodes, gfn, gtmp, gtodo, gcalls, returned, mapVars>>

\* f: decodeImage(mercatorData), or decodeImage(pinShadowData) and decodeImage(pinData).
Decode(g) ==
    /\ gpc[g] = "decode"
    /\ decodes' = [decodes EXCEPT ![gfn[g]] = @ + 1]
    /\ gtmp' = [gtmp EXCEPT ![g] = decodes[gfn[g]] + 1]
    /\ gpc' = [gpc EXCEPT ![g] = "assign"]
    /\ UNCHANGED <<onceDone, onceM, cached, gfn, gtodo, gcalls, returned, mapVars>>

\* f: the assignment to mercatorImg / defaultPinParts.
Assign(g) ==
    /\ gpc[g] = "assign"
    /\ cached' = [cached EXCEPT ![gfn[g]] = gtmp[g]]
    /\ gtmp' = [gtmp EXCEPT ![g] = 0]
    /\ gpc' = [gpc EXCEPT ![g] = "store"]
    /\ UNCHANGED <<onceDone, onceM, decodes, gfn, gtodo, gcalls, returned, mapVars>>

\* doSlow: the deferred o.done.Store(1)
Store(g) ==
    /\ gpc[g] = "store"
    /\ onceDone' = [onceDone EXCEPT ![gfn[g]] = 1]
    /\ gpc' = [gpc EXCEPT ![g] = "unlock"]
    /\ UNCHANGED <<onceM, cached, decodes, gfn, gtmp, gtodo, gcalls, returned, mapVars>>

\* doSlow: the deferred o.m.Unlock()
Unlock(g) ==
    /\ gpc[g] = "unlock"
    /\ onceM' = [onceM EXCEPT ![gfn[g]] = 0]
    /\ gpc' = [gpc EXCEPT ![g] = "return"]
    /\ UNCHANGED <<onceDone, cached, decodes, gfn, gtmp, gtodo, gcalls, returned, mapVars>>

\* "return mercatorImg" / "return defaultPinParts"
Return(g) ==
    /\ gpc[g] = "return"
    /\ returned' = returned \cup {<<gfn[g], cached[gfn[g]]>>}
    /\ gpc' = [gpc EXCEPT ![g] = "idle"]
    /\ UNCHANGED <<onceDone, onceM, cached, decodes, gfn, gtmp, gtodo, gcalls, mapVars>>

NextAccess ==
    \E g \in Goroutines :
        \/ CallDefaultMap(g)
        \/ CallDefaultPin(g)
        \/ Pins(g)
        \/ Enter(g)
        \/ DoFast(g)
        \/ Lock(g)
        \/ DoSlowCheck(g)
        \/ Decode(g)
        \/ Assign(g)
        \/ Store(g)
        \/ Unlock(g)
        \/ Return(g)

SpecAccess == InitAccess /\ [][NextAccess]_vars

\* =============================================================== claims
Pins1 == {coords[i] : i \in 1..Len(coords)}
Cropping == crop # <<>> /\ coords # <<>> /\ pc = "subimage"

\* C1: for a non-empty list of pins and a crop option, the rectangle handed to
\* SubImage satisfies 0 <= minX <= maxX <= W and 0 <= minY <= maxY <= H.
C1_CropInsideMap ==
    Cropping =>
        /\ 0 <= minX /\ minX <= maxX /\ maxX <= mapWidth
        /\ 0 <= minY /\ minY <= maxY /\ maxY <= mapHeight

\* C2: every pin lies inside the final crop rectangle, and each crop edge is at
\* least Bound pixels away from every pin on its side or lies on the map edge.
C2_PinsInsideWithMargin ==
    Cropping =>
        \A p \in Pins1 :
            /\ minX <= p.X /\ p.X <= maxX /\ minY <= p.Y /\ p.Y <= maxY
            /\ minX = 0 \/ p.X - minX >= crop[1].Bound
            /\ minY = 0 \/ p.Y - minY >= crop[1].Bound
            /\ maxX = mapWidth \/ maxX - p.X >= crop[1].Bound
            /\ maxY = mapHeight \/ maxY - p.Y >= crop[1].Bound

\* C3: when 0 < MinWidth <= W the final crop rectangle is at least MinWidth wide.
C3_WidthAtLeastMin ==
    (Cropping /\ crop[1].MinWidth <= mapWidth) => maxX - minX >= crop[1].MinWidth

\* The effective minimum height as C4 words it, for the crop width w.
EffectiveMinHeight(c, w) ==
    LET r == (w * c.MinHeight) \div c.MinWidth
    IN IF c.PreserveRatio /\ r > c.MinHeight THEN r ELSE c.MinHeight

\* C4: when the effective minimum height is <= H the final crop rectangle is at
\* least that high.
C4_HeightAtLeastMin ==
    (Cropping /\ EffectiveMinHeight(crop[1], maxX - minX) <= mapHeight)
        => maxY - minY >= EffectiveMinHeight(crop[1], maxX - minX)

\* The pins drawn so far with pin part k, in the order of their drawing.
RECURSIVE DrawnOf(_, _)
DrawnOf(k, d) ==
    IF d = <<>> THEN <<>>
    ELSE IF Head(d).part = k THEN <<Head(d).pt>> \o DrawnOf(k, Tail(d))
         ELSE DrawnOf(k, Tail(d))

IsPrefix(a, b) == Len(a) <= Len(b) /\ \A i \in 1..Len(a) : a[i] = b[i]

\* C5: the pin draws are ordered by (pin part, pixel Y): no draw of a part
\* follows a draw of a later part, within one part a pin with a smaller Y is
\* never drawn after one with a larger Y, and every part draws the pins in the
\* same order.
C5_DrawOrder ==
    /\ \A i, j \in 1..Len(drawn) :
          i < j => /\ drawn[i].part <= drawn[j].part
                   /\ drawn[i].part = drawn[j].part => drawn[i].pt.Y <= drawn[j].pt.Y
    /\ \A k \in 1..nParts :
          /\ k > 1 => IsPrefix(DrawnOf(k, drawn), DrawnOf(k - 1, drawn))
          /\ pc \notin {"sort", "drawmap", "drawpins"}
                => Len(DrawnOf(k, drawn)) = Len(coords)

\* Two parts were drawn for two pins that the caller gave in descending Y.
C5_Witness ==
    /\ pc = "done"
    /\ Len(drawn) = 4
    /\ Len(coords) = 2
    /\ coords[1].Y > coords[2].Y
    /\ drawn[1].pt = coords[2]
    /\ drawn[3].part = 2

\* C6: with a nil crop the returned image has the world map's width and height,
\* whatever the pin parts and the coordinates (the empty list included).
C6_NilCropFullSize ==
    (pc = "done" /\ crop = <<>>) =>
        /\ Dx(ret[1]) = mapWidth
        /\ Dy(ret[1]) = mapHeight

\* A nil crop with pins that do not span the map, and one with no pins at all.
C6_Witness ==
    /\ pc = "done"
    /\ crop = <<>>
    /\ nParts = 2
    /\ Len(coords) = 2
    /\ maxX - minX < mapWidth
    /\ maxY - minY < mapHeight

\* C8, as claimed: running the crop steps on the resolved rectangle, with the
\* same crop option and map size, yields the same rectangle.
C8_Idempotent ==
    Cropping =>
        ResolveCrop(Bounds, crop[1], mapWidth, mapHeight) = Bounds

\* C8, amended: with Bound = 0 and a resolved rectangle that does not reach the
\* right or the bottom edge of the map, running the crop steps on the resolved
\* rectangle yields the same rectangle.
C8_IdempotentNoMargin ==
    (crop # <<>> /\ pc = "subimage" /\ crop[1].Bound = 0
       /\ maxX < mapWidth /\ maxY < mapHeight) =>
        ResolveCrop(Bounds, crop[1], mapWidth, mapHeight) = Bounds

\* Bound = 0, and both the width and the height step have widened the box of
\* a single pin, short of the right and bottom edges.
C8_Witness ==
    /\ crop # <<>> /\ pc = "subimage"
    /\ crop[1].Bound = 0
    /\ Len(coords) = 1
    /\ maxX < mapWidth /\ maxY < mapHeight
    /\ maxX - minX > 0
    /\ maxY - minY > 0

\* C9: with an empty coordinate list and a non-nil crop the call does not run
\* the crop steps on the untouched initial bounds: it returns the uncropped map
\* (the code has no error result).
C9_EmptyListExplicit ==
    (coords = <<>> /\ crop # <<>>) =>
        /\ pc \notin {"width", "height", "subimage"}
        /\ pc = "done" => ret = <<NewRGBA(mapWidth, mapHeight)>>

\* C10: a single pin with the standard crop gets a rectangle exactly MinWidth
\* wide and exactly the effective minimum height high that contains the pin,
\* with the pin within one pixel of its centre when no edge lies on the map
\* boundary.
C10_SinglePinStandardCrop ==
    (Cropping /\ Len(coords) = 1 /\ crop = <<StandardCrop>>) =>
        LET p == coords[1]
            dx == 2 * p.X - (minX + maxX)
            dy == 2 * p.Y - (minY + maxY)
        IN /\ maxX - minX = StdMinWidth
           /\ maxY - minY = EffectiveMinHeight(StandardCrop, maxX - minX)
           /\ minX <= p.X /\ p.X <= maxX /\ minY <= p.Y /\ p.Y <= maxY
           /\ (minX > 0 /\ maxX < mapWidth /\ minY > 0 /\ maxY < mapHeight)
                 => (-2 <= dx /\ dx <= 2 /\ -2 <= dy /\ dy <= 2)

\* C7: for any number of goroutines calling DefaultMap or DefaultPin, first
\* calls at the same time included, each cache's assets are decoded at most
\* once, no call returns nil, all calls on a cache return the same value, and
\* a cache once set is never written again.
C7_OnceInitialised ==
    /\ [](/\ \A c \in Caches : decodes[c] <= 1
          /\ \A r \in returned : r[2] # 0
          /\ \A r, q \in returned : r[1] = q[1] => r[2] = q[2])
    /\ [][\A c \in Caches : cached[c] # 0 => cached'[c] = cached[c]]_vars

\* Two first calls at once: a goroutine that saw done = 0 still waits for the
\* mutex of a cache whose value another call has already returned.
C7_Witness ==
    \E g \in Goroutines :
        /\ gpc[g] = "lock"
        /\ onceDone[gfn[g]] = 1
        /\ <<gfn[g], 1>> \in returned

\* C11, as claimed: the pins are drawn in lexicographic (Y, X) order: of two
\* pins drawn with the same part, the earlier has the smaller Y, or the same Y
\* and an X that is not larger.
C11_DrawnByYThenX ==
    \A i, j \in 1..Len(drawn) :
        (i < j /\ drawn[i].part = drawn[j].part) =>
            \/ drawn[i].pt.Y < drawn[j].pt.Y
            \/ drawn[i].pt.Y = drawn[j].pt.Y /\ drawn[i].pt.X <= drawn[j].pt.X

\* C11, amended: the draw order is the list of projected points sorted by Y
\* alone: once sorted, cs is a permutation of the projected points with
\* non-descending Y, the n-th draw of every part is of cs[n], and the
\* comparator that sort.Slice is given is a strict weak ordering (irreflexive,
\* transitive, with transitive incomparability) on the pins; pins of equal Y
\* are in no particular order.
C11_DrawnByY ==
    /\ pc # "sort" =>
          /\ Len(cs) = Len(coords)
          /\ \A p \in Pins1 :
                Cardinality({i \in 1..Len(cs) : cs[i] = p})
                    = Cardinality({i \in 1..Len(coords) : coords[i] = p})
          /\ \A i \in 1..(Len(cs) - 1) : cs[i].Y <= cs[i + 1].Y
    /\ \A i \in 1..Len(drawn) :
          drawn[i].pt = cs[i - (drawn[i].part - 1) * Len(cs)]
    /\ pc = "sort" =>
          \A a, b, c \in Pins1 :
              /\ ~Less(a, a)
              /\ (Less(a, b) /\ Less(b, c)) => Less(a, c)
              /\ (~Less(a, b) /\ ~Less(b, a) /\ ~Less(b, c) /\ ~Less(c, b))
                    => (~Less(a, c) /\ ~Less(c, a))

\* Two pins of equal Y were given and drawn, with both parts, in descending X;
\* a third case of the order, two pins given in descending Y, is C5's.
C11_Witness ==
    /\ pc = "done"
    /\ nParts = 2
    /\ Len(coords) = 2
    /\ coords[1].Y = coords[2].Y
    /\ coords[1].X > coords[2].X
    /\ Len(drawn) = 4
    /\ drawn[1].pt = coords[1]
    /\ drawn[2].pt = coords[2]

====
